---- MODULE Spec2Model ----
(***************************************************************************)
(* The Aluvia SDK (src/src/index.ts): the username suffix codec, the       *)
(* Proxy handle with its feature toggles, and the Aluvia registry with its *)
(* credential cache and its calls to the transport (api-client.ts).        *)
(*                                                                         *)
(* Strings.  A username is modelled by the sequence of its dash-separated  *)
(* segments: "u1-session-t1" is <<"u1", "session", "t1">>, the empty       *)
(* string is <<"">>.  Every segment is the empty word or an alphanumeric   *)
(* word, so the model covers the usernames over [a-zA-Z0-9-]; among the    *)
(* words used none but "smart" starts with "smart".                        *)
(*                                                                         *)
(* Optional values.  A property that may be undefined holds "undefined",   *)
(* a boolean property holds "true" or "false".                             *)
(***************************************************************************)
EXTENDS Integers, Sequences, FiniteSets, Bags, TLC

\* ------------------------------------------------------------- bounds ---
MaxSegs == 3      \* segments of a base username drawn for the codec
MaxCalls == 3     \* registry / handle calls issued in one behaviour
MaxPending == 2   \* transport requests in flight at once
MaxObjs == 2      \* credential objects allocated in one behaviour
MaxData == 2      \* records in one transport response
MaxReads == 2     \* reads of info and calls of url on one Proxy

Undefined == "undefined"
OptBool == {"true", "false", Undefined}

\* ------------------------------------------------------- vocabularies ---
BaseWords == {"u1", "u2"}
Salts == {"t1", "t2"}
CodecWords == {"u1", "t1", "session", "routing", "smart", ""}

Min(S) == CHOOSE x \in S : \A y \in S : x <= y

SeqsUpTo(W, n) == UNION {[1..k -> W] : k \in 1..n}

\* ------------------------------------------------------ UsernameCodec ---
\* [a-zA-Z0-9]+ against a whole segment: the segment is a non-empty word
IsAlnumWord(w) == w # ""

\* the segments i, i+1 taken out: "-<s[i]>-<s[i+1]>" replaced by ""
RemoveTwo(s, i) == SubSeq(s, 1, i - 1) \o SubSeq(s, i + 2, Len(s))

\* start segments of the matches of /-session-[a-zA-Z0-9]+/
SessionMatches(s) ==
    {i \in 2..(Len(s) - 1) : s[i] = "session" /\ IsAlnumWord(s[i + 1])}

\* start segments of the matches of /-routing-smart/
RoutingMatches(s) ==
    {i \in 2..(Len(s) - 1) : s[i] = "routing" /\ s[i + 1] = "smart"}

\* String.prototype.replace with a regular expression without the g flag:
\* the leftmost match only
ReplaceSession(s) ==
    IF SessionMatches(s) = {} THEN s ELSE RemoveTwo(s, Min(SessionMatches(s)))

ReplaceRouting(s) ==
    IF RoutingMatches(s) = {} THEN s ELSE RemoveTwo(s, Min(RoutingMatches(s)))

stripUsernameSuffixes(username) == ReplaceRouting(ReplaceSession(username))

\* ----------------------------------------------------------- the state ---
VARIABLES
    heap,         \* the ProxyCredential objects, by object identity 1..Len(heap);
                  \* every one of them is held by a Proxy handle
    credentials,  \* Aluvia.credentials: the cache, a sequence of object identities
    pending,      \* the bag of transport requests in flight, one per suspended call
    last,         \* the call that settled in the last step (op "none": none did)
    nCalls,       \* asynchronous calls made so far
    genLog,       \* the invocations of generateSessionSalt, in order
    cBase,        \* codec: the base username drawn
    cForm,        \* codec: the way the suffixes were attached to it
    cIn,          \* codec: the decorated username handed to strip
    cOut,         \* codec: the results of the successive applications
    fData,        \* selection: the response.data handed to first's reduce
    fOut,         \* selection: the records it selected (none yet: <<>>)
    uCred,        \* url: the credential of the Proxy
    uProtocol,    \* url: the protocol argument ("undefined": argument left out)
    uOut,         \* url: the strings returned (none yet: <<>>)
    uInfo         \* url: the objects the info getter returned (none yet: <<>>)

regVars == <<heap, credentials, pending, last, nCalls, genLog>>
codecVars == <<cBase, cForm, cIn, cOut>>
selVars == <<fData, fOut>>
urlVars == <<uCred, uProtocol, uOut, uInfo>>
pureVars == <<codecVars, selVars, urlVars>>
vars == <<heap, credentials, pending, last, nCalls, genLog, cBase, cForm, cIn, cOut,
          fData, fOut, uCred, uProtocol, uOut, uInfo>>

\* -------------------------------------------------------------- Proxy ---
Credential(u, p, sticky, smart, salt) ==
    [username |-> u, password |-> p, stickyEnabled |-> sticky,
     smartRoutingEnabled |-> smart, session_salt |-> salt]

\* JavaScript truthiness of an optional boolean or an optional non-empty string
Truthy(v) == v # "false" /\ v # Undefined

\* Aluvia.config, shared by every Proxy
ConfigHost == "proxy.aluvia.io"
HttpPort == 8080
HttpsPort == 8443

\* a variant of buildCredential that attaches the routing suffix first
buildCredentialRoutingFirst(cred) ==
    LET base == stripUsernameSuffixes(cred.username)
        withRouting ==
            IF Truthy(cred.smartRoutingEnabled)
            THEN base \o <<"routing", "smart">>
            ELSE base
        withSession ==
            IF Truthy(cred.stickyEnabled) /\ Truthy(cred.session_salt)
            THEN withRouting \o <<"session", cred.session_salt>>
            ELSE withRouting
    IN  [cred EXCEPT !.username = withSession]

\* a variant of buildCredential that builds on the stored username as it is
buildCredentialWithoutStrip(cred) ==
    LET withSession ==
            IF Truthy(cred.stickyEnabled) /\ Truthy(cred.session_salt)
            THEN cred.username \o <<"session", cred.session_salt>>
            ELSE cred.username
        withRouting ==
            IF Truthy(cred.smartRoutingEnabled)
            THEN withSession \o <<"routing", "smart">>
            ELSE withSession
    IN  [cred EXCEPT !.username = withRouting]

\* a variant of buildCredential that makes up a token when none is there
buildCredentialFabricating(cred) ==
    LET base == stripUsernameSuffixes(cred.username)
        withSession ==
            IF Truthy(cred.stickyEnabled)
            THEN base \o <<"session", IF Truthy(cred.session_salt)
                                      THEN cred.session_salt ELSE "t1">>
            ELSE base
        withRouting ==
            IF Truthy(cred.smartRoutingEnabled)
            THEN withSession \o <<"routing", "smart">>
            ELSE withSession
    IN  [cred EXCEPT !.username = withRouting]

\* Proxy.buildCredential: the stored username stripped, then the session
\* suffix, then the routing suffix
buildCredential(cred) ==
    LET base == stripUsernameSuffixes(cred.username)
        withSession ==
            IF Truthy(cred.stickyEnabled) /\ Truthy(cred.session_salt)
            THEN base \o <<"session", cred.session_salt>>
            ELSE base
        withRouting ==
            IF Truthy(cred.smartRoutingEnabled)
            THEN withSession \o <<"routing", "smart">>
            ELSE withSession
    IN  [cred EXCEPT !.username = withRouting]

\* Proxy.info
info(cred) ==
    [username |-> buildCredential(cred).username,
     password |-> buildCredential(cred).password,
     host |-> ConfigHost, httpPort |-> HttpPort, httpsPort |-> HttpsPort,
     stickyEnabled |-> cred.stickyEnabled,
     smartRoutingEnabled |-> cred.smartRoutingEnabled]

\* a variant of url that takes the other port
urlSwappedPorts(cred, protocol) ==
    LET proto == IF protocol = Undefined THEN "http" ELSE protocol
    IN  <<proto, buildCredential(cred).username, buildCredential(cred).password,
          ConfigHost, IF proto = "https" THEN HttpPort ELSE HttpsPort>>

\* Proxy.url: `${protocol}://${username}:${password}@${host}:${port}`, kept as
\* the tuple of its five parts; the parameter defaults to "http"
url(cred, protocol) ==
    LET proto == IF protocol = Undefined THEN "http" ELSE protocol
    IN  <<proto, buildCredential(cred).username, buildCredential(cred).password,
          ConfigHost, IF proto = "https" THEN HttpsPort ELSE HttpPort>>

\* a variant of enableSticky that keeps the token the handle already holds
EnableStickyKeepingSalt(cred, salt) ==
    [cred EXCEPT !.stickyEnabled = "true",
                 !.session_salt = IF @ # Undefined THEN @ ELSE salt]

\* the local mutations of the four toggles, before the sync
EnableStickyLocal(cred, salt) ==
    [cred EXCEPT !.stickyEnabled = "true", !.session_salt = salt]

DisableStickyLocal(cred) ==
    [cred EXCEPT !.stickyEnabled = "false", !.session_salt = Undefined]

\* a variant of enableSmartRouting that resets the sticky session
EnableSmartRoutingResettingSticky(cred) ==
    [cred EXCEPT !.smartRoutingEnabled = "true", !.stickyEnabled = "false",
                 !.session_salt = Undefined]

EnableSmartRoutingLocal(cred) == [cred EXCEPT !.smartRoutingEnabled = "true"]

DisableSmartRoutingLocal(cred) == [cred EXCEPT !.smartRoutingEnabled = "false"]

\* ---------------------------------------------------------- validation ---
\* String.prototype.trim on the usernames of the model: only the blank
\* string <<" ">> has white space to lose
Trim(s) == IF s = <<" ">> THEN <<"">> ELSE s

\* validateRequiredString: a string that trims to the empty one is refused
IsEmptyString(s) == Trim(s) = <<"">>

MinProxyCount == 1
MaxProxyCount == 100

\* a JavaScript number n + half/2: an integer when half is 0
Number(n, half) == [floor |-> n, half |-> half]
IsInteger(x) == x.half = 0

\* a variant of validateProxyCount without the integer test
ValidProxyCountInRange(count) ==
    /\ 2 * count.floor + count.half >= 2 * MinProxyCount
    /\ 2 * count.floor + count.half <= 2 * MaxProxyCount

\* validateProxyCount: an integer, at least 1, at most 100
ValidProxyCount(count) ==
    /\ IsInteger(count)
    /\ count.floor >= MinProxyCount
    /\ count.floor <= MaxProxyCount

\* ----------------------------------------------------- transport I/O ---
\* a call suspended at its await: the request it sent and what it will need
\* when the response arrives
Request(op, path, h, toggle, sticky, count) ==
    [op |-> op, path |-> path, h |-> h, toggle |-> toggle,
     sticky |-> sticky, count |-> count]

NoRequest == Request("none", <<>>, 0, "none", Undefined, Number(0, 0))

\* a settled call: which operation (of which handle, through which toggle),
\* what the transport answered (kind "none": nothing was sent), how the
\* promise settled, with which error or which handles, and the use_sticky a
\* successful PATCH echoed; data and message are filled in by Settle
Settled(req, kind, outcome, error, value, echo) ==
    [op |-> req.op, h |-> req.h, toggle |-> req.toggle, kind |-> kind,
     outcome |-> outcome, error |-> error, value |-> value, echo |-> echo,
     data |-> <<>>, message |-> Undefined]

NoCall == Settled(NoRequest, "none", "none", "", <<>>, Undefined)

\* the wire format of one credential in a response
RawCredential(u, p, created, sticky) ==
    [username |-> u, password |-> p, created_at |-> created, use_sticky |-> sticky]

RemoteUsernames == {<<w>> : w \in BaseWords} \cup {<<"u1", "session", "t1">>}
Messages == {Undefined, "", "m1"}

\* the password the remote issued with a username
PasswordOf(u) == IF u[1] = "u1" THEN "p1" ELSE "p2"

RawCredentials ==
    {RawCredential(u, PasswordOf(u), c, s) :
        u \in RemoteUsernames, c \in {1, 2}, s \in {Undefined, "true"}}

\* the records the remote holds: a record keeps the creation timestamp it
\* got, its use_sticky option may be set or not
CreatedAt(u) == IF u = <<"u1">> THEN 1 ELSE 2

RemoteRecords == {x \in RawCredentials : x.created_at = CreatedAt(x.username)}

\* what the transport can answer: a resolved response with success true
\* ("ok") or false ("fail"), a rejection with status 404 ("e404") or any
\* other rejection ("error")
Response(kind, message, data, sticky) ==
    [kind |-> kind, message |-> message, data |-> data, use_sticky |-> sticky]

Failures ==
    {Response("fail", m, <<>>, Undefined) : m \in Messages}
        \cup {Response(k, Undefined, <<>>, Undefined) : k \in {"e404", "error"}}

\* responses carrying up to n of the credentials of R; a username names one
\* record of the remote, so no list has it twice
DataResponses(R, n) ==
    {Response("ok", Undefined, d, Undefined) :
        d \in {x \in UNION {[1..k -> R] : k \in 0..n} :
                  \A i, j \in 1..Len(x) : x[i].username = x[j].username => i = j}}

\* find and create read the username and the password of a record alone
IssuedCredentials == {x \in RawCredentials : x.created_at = 1}

\* the lists of up to n records first and create can be answered with
ListResponses == [n \in 0..MaxData |-> DataResponses(RemoteRecords, n)]
IssueResponses == [n \in 0..MaxData |-> DataResponses(IssuedCredentials, n)]

\* the error a rejected transport call throws, passed on unchanged
TransportError(resp) == "transport:" \o resp.kind

\* a variant of ApiError that always takes the generic description
ApiErrorGeneric(resp, fallback) == fallback

\* new ApiError(response.message || fallback): an absent message and the
\* empty one are falsy
ApiError(resp, fallback) ==
    IF resp.message # Undefined /\ resp.message # "" THEN resp.message ELSE fallback

\* ------------------------------------------------------------- Aluvia ---
\* the usernames callers pass: bare, decorated, empty and blank
Suffixes ==
    {<<>>, <<"session", "t1">>, <<"routing", "smart">>,
     <<"session", "t1", "routing", "smart">>}
RawUsernames == {<<w>> \o x : w \in BaseWords, x \in Suffixes} \cup {<<"">>}
Counts == {Number(0, 0), Number(1, 0), Number(101, 0), Number(1, 1)}

Handles == 1..Len(heap)

CanCall == nCalls < MaxCalls /\ BagCardinality(pending) < MaxPending

\* the suspended calls of one operation
InFlight(op) == {r \in BagToSet(pending) : r.op = op}

\* in this step a call sent the request r / the call suspended on r ended
Issues(r) == CopiesIn(r, pending') > CopiesIn(r, pending)
Settles(r) == CopiesIn(r, pending') < CopiesIn(r, pending)

\* the call runs up to its await: the request is in flight
Send(req) ==
    /\ pending' = pending (+) SetToBag({req})
    /\ nCalls' = nCalls + 1
    /\ last' = NoCall

\* the call throws before it sends anything
Refuse(req, error) ==
    /\ pending' = pending
    /\ nCalls' = nCalls + 1
    /\ last' = Settled(req, "none", "rejected", error, <<>>, Undefined)

\* first(): the reduce over response.data, the latest created_at wins and
\* the earlier record wins a tie
RECURSIVE ReduceLatestLastWins(_, _, _)
\* a variant of the reduce in which the later record wins a tie
ReduceLatestLastWins(data, i, latest) ==
    IF i > Len(data) THEN latest
    ELSE ReduceLatestLastWins(data, i + 1,
            IF data[i].created_at >= latest.created_at THEN data[i] ELSE latest)

RECURSIVE ReduceLatest(_, _, _)
ReduceLatest(data, i, latest) ==
    IF i > Len(data) THEN latest
    ELSE ReduceLatest(data, i + 1,
            IF data[i].created_at > latest.created_at THEN data[i] ELSE latest)

LatestProxy(data) == ReduceLatest(data, 2, data[1])

\* the records of the response a call turned into the handles it returns:
\* first the one it selected, find and create all they got
Ingested(r, resp, value) ==
    IF value = <<>> \/ resp.data = <<>> THEN <<>>
    ELSE IF r.op = "first" THEN <<LatestProxy(resp.data)>>
    ELSE resp.data

\* the suspended call r gets the answer resp and runs to its end
Settle(r, resp, outcome, error, value, echo) ==
    /\ pending' = pending (-) SetToBag({r})
    /\ nCalls' = nCalls
    /\ last' = [Settled(r, resp.kind, outcome, error, value, echo)
                   EXCEPT !.data = Ingested(r, resp, value),
                          !.message = resp.message]

\* first(): the credential built from the selected record
FirstCredential(raw) ==
    Credential(raw.username, raw.password,
               IF raw.use_sticky # Undefined /\ Truthy(raw.use_sticky)
               THEN raw.use_sticky ELSE "false",
               Undefined, Undefined)

\* find() and create(): the credential built from a returned record
NewCredential(raw) ==
    Credential(raw.username, raw.password, "false", "false", Undefined)

\* positions of the cached records whose stripped username is base
CacheMatches(hp, creds, base) ==
    {i \in 1..Len(creds) : stripUsernameSuffixes(hp[creds[i]].username) = base}

\* a variant of the reconciliation that takes the flag the remote echoed
ReconcileUpdateFromEcho(hp, creds, req, resp) ==
    IF CacheMatches(hp, creds, req.path) = {} THEN hp
    ELSE LET existingCred == creds[Min(CacheMatches(hp, creds, req.path))]
         IN  [hp EXCEPT ![existingCred].stickyEnabled =
                 IF resp.use_sticky # Undefined THEN resp.use_sticky ELSE @]

\* a variant of the reconciliation that leaves the cached record alone
ReconcileUpdateSkipped(hp, creds, req, resp) == hp

\* a variant of the reconciliation that rebuilds the record from the PATCH
\* response, which carries no password
ReconcileUpdateRebuilding(hp, creds, req, resp) ==
    IF CacheMatches(hp, creds, req.path) = {} THEN hp
    ELSE LET existingCred == creds[Min(CacheMatches(hp, creds, req.path))]
         IN  [hp EXCEPT ![existingCred] =
                 Credential(@.username, Undefined,
                            IF req.sticky # Undefined THEN req.sticky
                            ELSE @.stickyEnabled,
                            @.smartRoutingEnabled, @.session_salt)]

\* update(): this.credentials.find(...) and the assignment to existingCred
ReconcileUpdate(hp, creds, req, resp) ==
    IF CacheMatches(hp, creds, req.path) = {} THEN hp
    ELSE LET existingCred == creds[Min(CacheMatches(hp, creds, req.path))]
         IN  [hp EXCEPT ![existingCred].stickyEnabled =
                 IF req.sticky # Undefined THEN req.sticky ELSE @]

\* a variant of the filter that compares the stored username as it is
FilterDeletedByStoredName(hp, creds, base) ==
    SelectSeq(creds, LAMBDA id : hp[id].username # base)

\* delete(): this.credentials.filter(...)
FilterDeleted(hp, creds, base) ==
    SelectSeq(creds, LAMBDA id : stripUsernameSuffixes(hp[id].username) # base)

\* a variant of all that hands the records out last to first
allReversed ==
    [i \in 1..Len(credentials) |-> credentials[Len(credentials) + 1 - i]]

\* all(): one Proxy per cached credential, in cache order
all == credentials

\* --- first -----------------------------------------------------------
First ==
    /\ CanCall
    /\ Send(Request("first", <<>>, 0, "none", Undefined, Number(0, 0)))
    /\ UNCHANGED <<heap, credentials, genLog>>
    /\ UNCHANGED pureVars

\* a variant of CompleteFirst that adds the record to the cache, as create does
CompleteFirstAppending ==
    \E r \in InFlight("first") :
    \E resp \in Failures \cup ListResponses[IF Len(heap) < MaxObjs THEN MaxData ELSE 0] :
        /\ IF resp.kind \in {"e404", "error"}
           THEN /\ Settle(r, resp, "rejected", TransportError(resp), <<>>, Undefined)
                /\ UNCHANGED <<heap, credentials>>
           ELSE IF resp.kind = "ok" /\ Len(resp.data) > 0
           THEN /\ heap' = Append(heap, FirstCredential(LatestProxy(resp.data)))
                /\ credentials' = Append(credentials, Len(heap) + 1)
                /\ Settle(r, resp, "resolved", "", <<Len(heap) + 1>>, Undefined)
           ELSE /\ Settle(r, resp, "rejected", "Failed to load credentials", <<>>, Undefined)
                /\ UNCHANGED <<heap, credentials>>
        /\ UNCHANGED genLog
        /\ UNCHANGED pureVars

CompleteFirst ==
    \E r \in InFlight("first") :
    \E resp \in Failures \cup ListResponses[IF Len(heap) < MaxObjs THEN MaxData ELSE 0] :
        /\ IF resp.kind \in {"e404", "error"}
           THEN /\ Settle(r, resp, "rejected", TransportError(resp), <<>>, Undefined)
                /\ UNCHANGED <<heap, credentials>>
           ELSE IF resp.kind = "ok" /\ Len(resp.data) > 0
           THEN /\ heap' = Append(heap, FirstCredential(LatestProxy(resp.data)))
                /\ credentials' = <<Len(heap) + 1>>
                /\ Settle(r, resp, "resolved", "", <<Len(heap) + 1>>, Undefined)
           ELSE /\ Settle(r, resp, "rejected", "Failed to load credentials", <<>>, Undefined)
                /\ UNCHANGED <<heap, credentials>>
        /\ UNCHANGED genLog
        /\ UNCHANGED pureVars

\* --- find ------------------------------------------------------------
\* Aluvia.find up to its await: strip, the GET
FindRequest(username) ==
    Request("find", stripUsernameSuffixes(username), 0, "none", Undefined,
            Number(0, 0))

\* the requests find sends for the usernames callers pass
FindRequests == {FindRequest(username) : username \in RawUsernames}

Find ==
    \E req \in FindRequests :
        /\ CanCall
        /\ Send(req)
        /\ UNCHANGED <<heap, credentials, genLog>>
        /\ UNCHANGED pureVars

\* what the remote answers to the GET of one credential
FindResponses ==
    Failures \cup
        {x \in IssueResponses[IF Len(heap) < MaxObjs THEN 1 ELSE 0] :
            Len(x.data) = 1}

\* a variant of CompleteFind that passes a 404 on to the caller
CompleteFindThrowingNotFound ==
    \E r \in InFlight("find") : \E resp \in FindResponses :
        /\ IF resp.kind = "ok"
           THEN /\ heap' = Append(heap, NewCredential(resp.data[1]))
                /\ Settle(r, resp, "resolved", "", <<Len(heap) + 1>>, Undefined)
           ELSE IF resp.kind = "fail"
           THEN /\ Settle(r, resp, "resolved", "", <<>>, Undefined)
                /\ heap' = heap
           ELSE /\ Settle(r, resp, "rejected", TransportError(resp), <<>>, Undefined)
                /\ heap' = heap
        /\ UNCHANGED <<credentials, genLog>>
        /\ UNCHANGED pureVars

CompleteFind ==
    \E r \in InFlight("find") :
    \E resp \in FindResponses :
        /\ IF resp.kind = "ok"
           THEN /\ heap' = Append(heap, NewCredential(resp.data[1]))
                /\ Settle(r, resp, "resolved", "", <<Len(heap) + 1>>, Undefined)
           ELSE IF resp.kind \in {"fail", "e404"}
           THEN /\ Settle(r, resp, "resolved", "", <<>>, Undefined)
                /\ heap' = heap
           ELSE /\ Settle(r, resp, "rejected", TransportError(resp), <<>>, Undefined)
                /\ heap' = heap
        /\ UNCHANGED <<credentials, genLog>>
        /\ UNCHANGED pureVars

\* --- create ----------------------------------------------------------
Create ==
    \E count \in Counts :
        /\ CanCall
        /\ IF ValidProxyCount(count)
           THEN Send(Request("create", <<>>, 0, "none", Undefined, count))
           ELSE Refuse(Request("create", <<>>, 0, "none", Undefined, count),
                       "ValidationError")
        /\ UNCHANGED <<heap, credentials, genLog>>
        /\ UNCHANGED pureVars

\* what the remote answers to the POST
CreateResponses ==
    Failures \cup
        IssueResponses[IF MaxObjs - Len(heap) < MaxData
                       THEN MaxObjs - Len(heap) ELSE MaxData]

\* a variant of CompleteCreate that replaces the cache, as first does
CompleteCreateReplacingCache ==
    \E r \in InFlight("create") : \E resp \in CreateResponses :
        /\ IF resp.kind = "ok"
           THEN LET newCredentials == [i \in 1..Len(resp.data) |-> NewCredential(resp.data[i])]
                    ids == [i \in 1..Len(resp.data) |-> Len(heap) + i]
                IN  /\ heap' = heap \o newCredentials
                    /\ credentials' = ids
                    /\ Settle(r, resp, "resolved", "", ids, Undefined)
           ELSE /\ Settle(r, resp, "rejected",
                          IF resp.kind = "fail"
                          THEN ApiError(resp, "Failed to create proxies")
                          ELSE TransportError(resp),
                          <<>>, Undefined)
                /\ UNCHANGED <<heap, credentials>>
        /\ UNCHANGED genLog
        /\ UNCHANGED pureVars

CompleteCreate ==
    \E r \in InFlight("create") : \E resp \in CreateResponses :
        /\ IF resp.kind = "ok"
           THEN LET newCredentials == [i \in 1..Len(resp.data) |-> NewCredential(resp.data[i])]
                    ids == [i \in 1..Len(resp.data) |-> Len(heap) + i]
                IN  /\ heap' = heap \o newCredentials
                    /\ credentials' = credentials \o ids
                    /\ Settle(r, resp, "resolved", "", ids, Undefined)
           ELSE IF resp.kind = "fail"
           THEN /\ Settle(r, resp, "rejected", ApiError(resp, "Failed to create proxies"),
                          <<>>, Undefined)
                /\ UNCHANGED <<heap, credentials>>
           ELSE /\ Settle(r, resp, "rejected", TransportError(resp), <<>>, Undefined)
                /\ UNCHANGED <<heap, credentials>>
        /\ UNCHANGED genLog
        /\ UNCHANGED pureVars

\* --- update ----------------------------------------------------------
\* Aluvia.update up to its await: the PATCH for the stripped username with
\* body {options: {use_sticky: options.stickyEnabled}}
UpdateRequest(username, sticky, h, toggle) ==
    Request("update", stripUsernameSuffixes(username), h, toggle, sticky,
            Number(0, 0))

\* updateData, the body of the PATCH: options holds use_sticky and no other key
UpdateBody(req) == [use_sticky |-> req.sticky]

SendUpdate(username, sticky, h, toggle) ==
    Send(UpdateRequest(username, sticky, h, toggle))

\* the requests update sends for the arguments callers pass
UpdateRequests ==
    {UpdateRequest(username, sticky, 0, "none") :
        username \in RawUsernames, sticky \in OptBool}

\* a variant of update that writes the flag into the cache before the
\* remote has answered
UpdateOptimistic ==
    \E req \in UpdateRequests :
        /\ CanCall
        /\ Send(req)
        /\ heap' = ReconcileUpdate(heap, credentials, req,
                                   Response("ok", Undefined, <<>>, Undefined))
        /\ UNCHANGED <<credentials, genLog>>
        /\ UNCHANGED pureVars

Update ==
    \E req \in UpdateRequests :
        /\ CanCall
        /\ Send(req)
        /\ UNCHANGED <<heap, credentials, genLog>>
        /\ UNCHANGED pureVars

\* the response to a PATCH echoes the options the remote stored
UpdateResponses ==
    Failures \cup {Response("ok", Undefined, <<>>, x) : x \in OptBool}

\* the flag a toggle set, put back to its opposite
UndoToggle(cred, toggle) ==
    CASE toggle = "enableSticky" -> DisableStickyLocal(cred)
      [] toggle = "disableSticky" -> [cred EXCEPT !.stickyEnabled = "true"]
      [] toggle = "enableSmartRouting" -> DisableSmartRoutingLocal(cred)
      [] toggle = "disableSmartRouting" -> EnableSmartRoutingLocal(cred)
      [] OTHER -> cred

\* a variant of CompleteUpdate that rolls the toggle back when its sync fails
CompleteUpdateRollingBack ==
    \E r \in InFlight("update") : \E resp \in UpdateResponses :
        /\ IF resp.kind = "ok"
           THEN /\ heap' = ReconcileUpdate(heap, credentials, r, resp)
                /\ Settle(r, resp, "resolved", "",
                          IF r.toggle \in {"none", "update"} THEN <<>> ELSE <<r.h>>,
                          resp.use_sticky)
           ELSE /\ Settle(r, resp, "rejected",
                          IF resp.kind = "fail"
                          THEN ApiError(resp, "Failed to update proxy")
                          ELSE TransportError(resp),
                          <<>>, Undefined)
                /\ heap' = IF r.h = 0 THEN heap
                           ELSE [heap EXCEPT ![r.h] = UndoToggle(@, r.toggle)]
        /\ UNCHANGED <<credentials, genLog>>
        /\ UNCHANGED pureVars

\* a toggle resolves to its Proxy, Aluvia.update and Proxy.update to true
CompleteUpdate ==
    \E r \in InFlight("update") : \E resp \in UpdateResponses :
        /\ IF resp.kind = "ok"
           THEN /\ heap' = ReconcileUpdate(heap, credentials, r, resp)
                /\ Settle(r, resp, "resolved", "",
                          IF r.toggle \in {"none", "update"} THEN <<>> ELSE <<r.h>>,
                          resp.use_sticky)
           ELSE IF resp.kind = "fail"
           THEN /\ Settle(r, resp, "rejected", ApiError(resp, "Failed to update proxy"),
                          <<>>, Undefined)
                /\ heap' = heap
           ELSE /\ Settle(r, resp, "rejected", TransportError(resp), <<>>, Undefined)
                /\ heap' = heap
        /\ UNCHANGED <<credentials, genLog>>
        /\ UNCHANGED pureVars

\* --- delete ----------------------------------------------------------
\* a variant of delete that addresses the username as it was passed
DeleteCallUnstripped(username, h) ==
    [refused |-> IsEmptyString(username),
     req |-> Request("delete", Trim(username), h, "none", Undefined, Number(0, 0))]

\* Aluvia.delete up to its await: validateUsername, strip, the DELETE
DeleteCall(username, h) ==
    [refused |-> IsEmptyString(username),
     req |-> Request("delete",
                     IF IsEmptyString(username) THEN Trim(username)
                     ELSE stripUsernameSuffixes(Trim(username)),
                     h, "none", Undefined, Number(0, 0))]

PerformDelete(call) ==
    IF call.refused THEN Refuse(call.req, "ValidationError") ELSE Send(call.req)

SendDelete(username, h) == PerformDelete(DeleteCall(username, h))

\* what delete does up to its await for the usernames callers pass
DeleteCalls == {DeleteCall(username, 0) : username \in RawUsernames \cup {<<" ">>}}

Delete ==
    \E call \in DeleteCalls :
        /\ CanCall
        /\ PerformDelete(call)
        /\ UNCHANGED <<heap, credentials, genLog>>
        /\ UNCHANGED pureVars

\* what the remote answers to a DELETE
DeleteResponses == Failures \cup {Response("ok", Undefined, <<>>, Undefined)}

\* a variant of CompleteDelete that drops the records whatever the remote says
CompleteDeleteRemovingAnyway ==
    \E r \in InFlight("delete") : \E resp \in DeleteResponses :
        /\ credentials' = FilterDeleted(heap, credentials, r.path)
        /\ IF resp.kind = "ok"
           THEN Settle(r, resp, "resolved", "", <<>>, Undefined)
           ELSE Settle(r, resp, "rejected",
                       IF resp.kind = "fail"
                       THEN ApiError(resp, "Failed to delete proxy")
                       ELSE TransportError(resp),
                       <<>>, Undefined)
        /\ UNCHANGED <<heap, genLog>>
        /\ UNCHANGED pureVars

\* a variant of CompleteDelete that answers false when the remote call fails
CompleteDeleteSwallowing ==
    \E r \in InFlight("delete") : \E resp \in DeleteResponses :
        /\ IF resp.kind = "ok"
           THEN /\ credentials' = FilterDeleted(heap, credentials, r.path)
                /\ Settle(r, resp, "resolved", "", <<>>, Undefined)
           ELSE /\ Settle(r, resp, "resolved", "", <<>>, Undefined)
                /\ credentials' = credentials
        /\ UNCHANGED <<heap, genLog>>
        /\ UNCHANGED pureVars

CompleteDelete ==
    \E r \in InFlight("delete") : \E resp \in DeleteResponses :
        /\ IF resp.kind = "ok"
           THEN /\ credentials' = FilterDeleted(heap, credentials, r.path)
                /\ Settle(r, resp, "resolved", "", <<>>, Undefined)
           ELSE IF resp.kind = "fail"
           THEN /\ Settle(r, resp, "rejected", ApiError(resp, "Failed to delete proxy"),
                          <<>>, Undefined)
                /\ credentials' = credentials
           ELSE /\ Settle(r, resp, "rejected", TransportError(resp), <<>>, Undefined)
                /\ credentials' = credentials
        /\ UNCHANGED <<heap, genLog>>
        /\ UNCHANGED pureVars

\* --- all ------------------------------------------------------------
\* all() is synchronous: it returns at once and sends nothing
All ==
    /\ last' = Settled(Request("all", <<>>, 0, "none", Undefined, Number(0, 0)),
                       "none", "resolved", "", all, Undefined)
    /\ UNCHANGED <<heap, credentials, pending, nCalls, genLog>>
    /\ UNCHANGED pureVars

\* --- the Proxy's calls -----------------------------------------------
\* a variant of Proxy.update that sends the flags the handle had before the
\* toggle changed them
ProxySyncStale(hp, h, toggle) ==
    SendUpdate(heap[h].username, heap[h].stickyEnabled, h, toggle)

\* Proxy.update: the registry's update for the stored username, carrying
\* stickyEnabled alone
ProxySync(hp, h, toggle) ==
    SendUpdate(hp[h].username, hp[h].stickyEnabled, h, toggle)

\* one invocation of generateSessionSalt, with what the handle shows after it
Generated(h, salt, cred) ==
    [h |-> h, salt |-> salt, username |-> buildCredential(cred).username]

EnableSticky ==
    \E h \in Handles, salt \in Salts :
        /\ CanCall
        /\ heap' = [heap EXCEPT ![h] = EnableStickyLocal(@, salt)]
        /\ genLog' = Append(genLog, Generated(h, salt, heap'[h]))
        /\ ProxySync(heap', h, "enableSticky")
        /\ UNCHANGED credentials
        /\ UNCHANGED pureVars

DisableSticky ==
    \E h \in Handles :
        /\ CanCall
        /\ heap' = [heap EXCEPT ![h] = DisableStickyLocal(@)]
        /\ ProxySync(heap', h, "disableSticky")
        /\ UNCHANGED <<credentials, genLog>>
        /\ UNCHANGED pureVars

EnableSmartRouting ==
    \E h \in Handles :
        /\ CanCall
        /\ heap' = [heap EXCEPT ![h] = EnableSmartRoutingLocal(@)]
        /\ ProxySync(heap', h, "enableSmartRouting")
        /\ UNCHANGED <<credentials, genLog>>
        /\ UNCHANGED pureVars

DisableSmartRouting ==
    \E h \in Handles :
        /\ CanCall
        /\ heap' = [heap EXCEPT ![h] = DisableSmartRoutingLocal(@)]
        /\ ProxySync(heap', h, "disableSmartRouting")
        /\ UNCHANGED <<credentials, genLog>>
        /\ UNCHANGED pureVars

ProxyUpdate ==
    \E h \in Handles :
        /\ CanCall
        /\ ProxySync(heap, h, "update")
        /\ UNCHANGED <<heap, credentials, genLog>>
        /\ UNCHANGED pureVars

ProxyDelete ==
    \E h \in Handles :
        /\ CanCall
        /\ SendDelete(heap[h].username, h)
        /\ UNCHANGED <<heap, credentials, genLog>>
        /\ UNCHANGED pureVars

\* ------------------------------------------------------- specification ---
CodecIdle ==
    /\ cBase = <<"u1">>
    /\ cForm = "bare"
    /\ cIn = <<"u1">>
    /\ cOut = <<>>

\* first's reduce and url are not exercised
PureIdle ==
    /\ fData = <<>>
    /\ fOut = <<>>
    /\ uCred = Credential(<<"u1">>, "p1", "false", "false", Undefined)
    /\ uProtocol = Undefined
    /\ uOut = <<>>
    /\ uInfo = <<>>

RegistryInit ==
    /\ heap = <<>>
    /\ credentials = <<>>
    /\ pending = EmptyBag
    /\ last = NoCall
    /\ nCalls = 0
    /\ genLog = <<>>

Init == RegistryInit /\ CodecIdle /\ PureIdle

Next ==
    \/ First \/ CompleteFirst
    \/ Find \/ CompleteFind
    \/ Create \/ CompleteCreate
    \/ Update \/ CompleteUpdate
    \/ Delete \/ CompleteDelete
    \/ EnableSticky \/ DisableSticky
    \/ EnableSmartRouting \/ DisableSmartRouting
    \/ ProxyUpdate \/ ProxyDelete
    \/ All

Spec == Init /\ [][Next]_vars

\* ------------------------------- specification of the awaited calls ---
\* the caller awaits every call before it issues the next one
Awaited == pending = EmptyBag

NextAwaited ==
    \/ (Awaited /\ First) \/ CompleteFirst
    \/ (Awaited /\ Find) \/ CompleteFind
    \/ (Awaited /\ Create) \/ CompleteCreate
    \/ (Awaited /\ Update) \/ CompleteUpdate
    \/ (Awaited /\ Delete) \/ CompleteDelete
    \/ (Awaited /\ EnableSticky) \/ (Awaited /\ DisableSticky)
    \/ (Awaited /\ EnableSmartRouting) \/ (Awaited /\ DisableSmartRouting)
    \/ (Awaited /\ ProxyUpdate) \/ (Awaited /\ ProxyDelete)
    \/ (Awaited /\ All)

SpecAwaited == Init /\ [][NextAwaited]_vars

\* ------------------------- specification of the registry's own calls ---
\* first, find, create, update and delete called on the registry, in any
\* order and overlapping in any way
NextRegistry ==
    \/ First \/ CompleteFirst
    \/ Find \/ CompleteFind
    \/ Create \/ CompleteCreate
    \/ Update \/ CompleteUpdate
    \/ Delete \/ CompleteDelete

SpecRegistry == Init /\ [][NextRegistry]_vars

\* ------------------------------ specification of overlapping toggles ---
\* the caller awaits first, and calls the toggles of the handles it got
\* without awaiting them
NextToggles ==
    \/ (Awaited /\ First) \/ CompleteFirst
    \/ EnableSticky \/ DisableSticky
    \/ EnableSmartRouting \/ DisableSmartRouting
    \/ CompleteUpdate

SpecToggles == Init /\ [][NextToggles]_vars

\* handles obtained from first and create only, every call awaited, the
\* toggles of those handles and all()
NextHandles ==
    \/ (Awaited /\ First) \/ CompleteFirst
    \/ (Awaited /\ Create) \/ CompleteCreate
    \/ (Awaited /\ EnableSticky) \/ (Awaited /\ DisableSticky)
    \/ (Awaited /\ EnableSmartRouting) \/ (Awaited /\ DisableSmartRouting)
    \/ CompleteUpdate
    \/ (Awaited /\ All)

SpecHandles == Init /\ [][NextHandles]_vars

\* ---------------------------------------- specification of the codec ---
\* the ways a session token and the routing marker get attached to a base
Forms == {"bare", "session", "routing", "session-routing", "routing-session"}
CodecTokens == {"t1", "smart"}

Decorate(b, form, t) ==
    CASE form = "bare" -> b
      [] form = "session" -> b \o <<"session", t>>
      [] form = "routing" -> b \o <<"routing", "smart">>
      [] form = "session-routing" -> b \o <<"session", t, "routing", "smart">>
      [] form = "routing-session" -> b \o <<"routing", "smart", "session", t>>

CodecInit ==
    /\ RegistryInit
    /\ PureIdle
    /\ cBase \in SeqsUpTo(CodecWords, MaxSegs)
    /\ cForm \in Forms
    /\ \E t \in CodecTokens : cIn = Decorate(cBase, cForm, t)
    /\ cOut = <<>>

\* strip applied to the username, then to its own result
StripOnce ==
    /\ Len(cOut) < 2
    /\ cOut' = Append(cOut, stripUsernameSuffixes(
                                IF cOut = <<>> THEN cIn ELSE cOut[Len(cOut)]))
    /\ UNCHANGED <<cBase, cForm, cIn>>
    /\ UNCHANGED <<regVars, selVars, urlVars>>

CodecNext == StripOnce

SpecCodec == CodecInit /\ [][CodecNext]_vars

\* ------------------------------ specification of first's selection ---
SelectInit ==
    /\ RegistryInit
    /\ CodecIdle
    /\ fData \in UNION {[1..k -> RawCredentials] : k \in 1..MaxData}
    /\ fOut = <<>>
    /\ uCred = Credential(<<"u1">>, "p1", "false", "false", Undefined)
    /\ uProtocol = Undefined
    /\ uOut = <<>>
    /\ uInfo = <<>>

\* response.data.reduce(...) on a non-empty response.data
SelectLatest ==
    /\ fOut = <<>>
    /\ fOut' = <<LatestProxy(fData)>>
    /\ UNCHANGED <<fData, regVars, codecVars, urlVars>>

SelectNext == SelectLatest

SpecSelect == SelectInit /\ [][SelectNext]_vars

\* ------------------------------------------- specification of url ---
\* the credentials a Proxy can hold
HeldCredentials ==
    {Credential(u, PasswordOf(u), sticky, smart, salt) :
        u \in RemoteUsernames, sticky \in {"true", "false"}, smart \in OptBool,
        salt \in Salts \cup {Undefined}}

Protocols == {"http", "https", Undefined}

UrlInit ==
    /\ RegistryInit
    /\ CodecIdle
    /\ fData = <<>>
    /\ fOut = <<>>
    /\ uCred \in HeldCredentials
    /\ uProtocol \in Protocols
    /\ uOut = <<>>
    /\ uInfo = <<>>

\* a variant of url that keeps the username it built in the credential
CallUrlStoring ==
    /\ Len(uOut) < MaxReads
    /\ uOut' = Append(uOut, url(uCred, uProtocol))
    /\ uCred' = buildCredential(uCred)
    /\ UNCHANGED <<uProtocol, uInfo, regVars, codecVars, selVars>>

\* proxy.url(protocol), or proxy.url() when the argument is left out
CallUrl ==
    /\ Len(uOut) < MaxReads
    /\ uOut' = Append(uOut, url(uCred, uProtocol))
    /\ UNCHANGED <<uCred, uProtocol, uInfo, regVars, codecVars, selVars>>

\* proxy.info
ReadInfo ==
    /\ Len(uInfo) < MaxReads
    /\ uInfo' = Append(uInfo, info(uCred))
    /\ UNCHANGED <<uCred, uProtocol, uOut, regVars, codecVars, selVars>>

UrlNext == CallUrl \/ ReadInfo

SpecUrl == UrlInit /\ [][UrlNext]_vars

\* a base username that carries no suffix of its own
SuffixFree(b) == stripUsernameSuffixes(b) = b

\* the objects the cache holds
Cached == {credentials[i] : i \in 1..Len(credentials)}

StickyToggles == {"enableSticky", "disableSticky"}
SmartToggles == {"enableSmartRouting", "disableSmartRouting"}

\* the requests in flight before or after the step
Requests == BagToSet(pending) \cup BagToSet(pending')

\* ---------------------------------------------------------------- C1 ---
\* C1: in every reachable state every credential object, cached or held by
\* a handle, has a session token exactly when its sticky flag is true.
C1_TokenIffSticky ==
    \A h \in Handles :
        (heap[h].session_salt # Undefined) <=> (heap[h].stickyEnabled = "true")

\* ---------------------------------------------------------------- C2 ---
\* C2: when an update for a username resolves and the remote echoed a
\* sticky flag, every cached record with that canonical username has the
\* echoed flag, whatever the caller asked for.
C2_RemoteAuthoritative ==
    [][\A r \in InFlight("update") :
          (Settles(r) /\ last'.outcome = "resolved" /\ last'.echo # Undefined)
              => \A i \in CacheMatches(heap', credentials', r.path) :
                     heap'[credentials'[i]].stickyEnabled = last'.echo]_vars

\* ---------------------------------------------------------------- C3 ---
\* C3: find sends a request to the transport only when no cached record
\* has the canonical username it looks for.
C3_FindHitSendsNothing ==
    [][\A r \in Requests :
          (r.op = "find" /\ Issues(r))
              => CacheMatches(heap, credentials, r.path) = {}]_vars

\* ---------------------------------------------------------------- C4 ---
\* C4: strip is idempotent: whatever suffix occurrences the username
\* carries, stripping the stripped username gives the stripped username.
C4_StripIdempotent == Len(cOut) = 2 => cOut[2] = cOut[1]

\* ---------------------------------------------------------------- C5 ---
\* C5: for a suffix-free base b and a token t, strip gives b back for b
\* itself and for b with the session suffix, the routing suffix, or both in
\* either order of attachment.
C5_StripRemovesBoth == (SuffixFree(cBase) /\ Len(cOut) >= 1) => cOut[1] = cBase

\* ---------------------------------------------------------------- C6 ---
\* C6: a handle with both features enabled and a token present shows the
\* username base-session-<token>-routing-smart, the session suffix before
\* the routing suffix.
C6_ComposeOrder ==
    \A h \in Handles :
        (/\ heap[h].stickyEnabled = "true"
         /\ heap[h].smartRoutingEnabled = "true"
         /\ heap[h].session_salt # Undefined)
            => info(heap[h]).username =
                   stripUsernameSuffixes(heap[h].username)
                       \o <<"session", heap[h].session_salt, "routing", "smart">>

\* both features are on and the token was generated when smart routing was
\* already on: sticky was enabled second
C6_RoutingEnabledFirst ==
    \E h \in Handles : \E i \in 1..Len(genLog) :
        /\ heap[h].stickyEnabled = "true"
        /\ heap[h].smartRoutingEnabled = "true"
        /\ genLog[i].h = h
        /\ genLog[i].salt = heap[h].session_salt
        /\ genLog[i].username =
               stripUsernameSuffixes(heap[h].username)
                   \o <<"session", genLog[i].salt, "routing", "smart">>

UpdateErrors ==
    {TransportError(x) : x \in {y \in Failures : y.kind # "fail"}}
        \cup {ApiError(x, "Failed to update proxy") :
                  x \in {y \in Failures : y.kind = "fail"}}

\* the username of a handle that shows the token t
ShowsToken(cred, t) ==
    info(cred).username =
        stripUsernameSuffixes(cred.username) \o <<"session", t>>
            \o (IF Truthy(cred.smartRoutingEnabled)
                THEN <<"routing", "smart">> ELSE <<>>)

\* C9: when every call is awaited and the sync of a toggle fails, the call
\* rejects with the error of the update and the handle shows the value the
\* toggle gave its flag; after enableSticky it shows the token generated
\* by that call.
C9_NoRollback ==
    (last.outcome = "rejected" /\ last.toggle \in StickyToggles \cup SmartToggles)
        => /\ last.error \in UpdateErrors
           /\ last.toggle = "enableSticky"
               => /\ heap[last.h].stickyEnabled = "true"
                  /\ genLog[Len(genLog)].h = last.h
                  /\ heap[last.h].session_salt = genLog[Len(genLog)].salt
                  /\ ShowsToken(heap[last.h], genLog[Len(genLog)].salt)
           /\ last.toggle = "disableSticky"
               => /\ heap[last.h].stickyEnabled = "false"
                  /\ heap[last.h].session_salt = Undefined
           /\ last.toggle = "enableSmartRouting"
               => heap[last.h].smartRoutingEnabled = "true"
           /\ last.toggle = "disableSmartRouting"
               => heap[last.h].smartRoutingEnabled = "false"

\* the sync of an enableSticky failed on a handle that had a token before
C9_EnableStickyFailed ==
    /\ last.outcome = "rejected"
    /\ last.toggle = "enableSticky"
    /\ Len(genLog) = 2
    /\ genLog[1].h = last.h
    /\ genLog[1].salt # genLog[2].salt

\* --------------------------------------------------------------- C10 ---
\* the errors a failed DELETE raises
DeleteErrors ==
    {TransportError(x) : x \in {y \in Failures : y.kind # "fail"}}
        \cup {ApiError(x, "Failed to delete proxy") :
                  x \in {y \in Failures : y.kind = "fail"}}

\* C10: when every call is awaited, a delete whose remote call reports a
\* failure or rejects fails with that error, and neither sending the request
\* nor the failure changes the cache: the same records, in the same order.
C10_DeleteFailureKeepsCache ==
    [][\A r \in Requests :
          r.op = "delete"
              => /\ Issues(r) => (credentials' = credentials /\ heap' = heap)
                 /\ (Settles(r) /\ last'.outcome = "rejected")
                     => /\ credentials' = credentials
                        /\ heap' = heap
                        /\ last'.error \in DeleteErrors]_vars

\* the remote delete of a cached handle's record failed
C10_DeleteFailedOnCached ==
    /\ last.op = "delete"
    /\ last.outcome = "rejected"
    /\ last.error \in DeleteErrors
    /\ last.h \in Cached

\* --------------------------------------------------------------- C11 ---
\* positions of the cached records whose canonical username is not base
Others(hp, creds, base) ==
    {i \in 1..Len(creds) : stripUsernameSuffixes(hp[creds[i]].username) # base}

\* the k-th smallest element of a set of positions
Kth(S, k) == CHOOSE i \in S : Cardinality({j \in S : j <= i}) = k

\* C11: when a delete resolves, no cached record has the canonical username
\* it addressed, the cache holds the other records, all of them, in the
\* order they had, and no record changed.
C11_DeleteRemovesMatches ==
    [][\A r \in Requests :
          (r.op = "delete" /\ Settles(r) /\ last'.outcome = "resolved")
              => LET kept == Others(heap, credentials, r.path)
                 IN  /\ CacheMatches(heap', credentials', r.path) = {}
                     /\ Len(credentials') = Cardinality(kept)
                     /\ \A k \in 1..Len(credentials') :
                            credentials'[k] = credentials[Kth(kept, k)]
                     /\ heap' = heap]_vars

\* create returned two records, the delete of one of them resolved and the
\* other is still cached
C11_DeletedOneOfTwo ==
    /\ last.op = "delete"
    /\ last.outcome = "resolved"
    /\ nCalls = 2
    /\ Len(heap) = 2
    /\ Len(credentials) = 1

\* --------------------------------------------------------------- C12 ---
\* C12: a find whose remote lookup fails with a 404 or reports success
\* false resolves to null; one whose remote lookup fails in another way
\* rejects with that failure; in both cases the cache and its records are
\* as they were.
C12_FindNotFoundIsNull ==
    [][\A r \in Requests :
          (r.op = "find" /\ Settles(r) /\ last'.kind # "ok")
              => /\ credentials' = credentials
                 /\ heap' = heap
                 /\ last'.kind \in {"e404", "fail"}
                     => (last'.outcome = "resolved" /\ last'.value = <<>>)
                 /\ last'.kind = "error"
                     => /\ last'.outcome = "rejected"
                        /\ last'.error = TransportError([kind |-> "error"])]_vars

\* a find got a 404 and resolved to null while the cache held a record
C12_FindGot404 ==
    /\ last.op = "find"
    /\ last.kind = "e404"
    /\ last.outcome = "resolved"
    /\ last.value = <<>>
    /\ credentials # <<>>

\* --------------------------------------------------------------- C13 ---
\* C13: when a find resolves to a handle, the cache holds a record with
\* the username it got from the remote.
C13_FindCachesRecord ==
    [][\A r \in Requests :
          (r.op = "find" /\ Settles(r) /\ last'.value # <<>>)
              => \E i \in 1..Len(credentials') :
                     heap'[credentials'[i]].username
                         = heap'[last'.value[1]].username]_vars

\* --------------------------------------------------------------- C14 ---
\* C14: when a create resolves, the cache is the old cache followed by one
\* new record per returned record, in response order, each with the
\* returned username and password, both features off and no token; no
\* earlier record changed; the handles returned are those of the new
\* records, in the same order.
C14_CreateAppends ==
    [][\A r \in Requests :
          (r.op = "create" /\ Settles(r) /\ last'.outcome = "resolved")
              => LET n == Len(last'.data)
                     old == Len(credentials)
                 IN  /\ Len(last'.value) = n
                     /\ Len(credentials') = old + n
                     /\ SubSeq(credentials', 1, old) = credentials
                     /\ \A h \in Handles : heap'[h] = heap[h]
                     /\ \A k \in 1..n :
                            LET id == last'.value[k]
                            IN  /\ credentials'[old + k] = id
                                /\ id \notin Handles
                                /\ heap'[id] =
                                       Credential(last'.data[k].username,
                                                  last'.data[k].password,
                                                  "false", "false", Undefined)]_vars

\* a create resolved with two records of different usernames, the first of
\* them reported sticky by the remote
C14_CreatedTwo ==
    /\ last.op = "create"
    /\ last.outcome = "resolved"
    /\ Len(last.value) = 2
    /\ last.data[1].username # last.data[2].username
    /\ last.data[1].use_sticky = "true"

\* --------------------------------------------------------------- C15 ---
\* C15: a create sends a request only for an integer count from 1 to 100;
\* a create that sends none fails with a validation failure and leaves the
\* requests in flight, the cache and every record as they were.
C15_CreateValidatesCount ==
    [][/\ \A r \in Requests :
            (r.op = "create" /\ Issues(r))
                => (r.count.half = 0 /\ r.count.floor >= 1 /\ r.count.floor <= 100)
       /\ (last'.op = "create" /\ last'.kind = "none" /\ nCalls' = nCalls + 1)
            => /\ last'.outcome = "rejected"
               /\ last'.error = "ValidationError"
               /\ pending' = pending
               /\ credentials' = credentials
               /\ heap' = heap]_vars

\* a create was refused while the cache held a record
C15_CreateRefused ==
    /\ last.op = "create"
    /\ last.kind = "none"
    /\ last.outcome = "rejected"
    /\ credentials # <<>>

\* --------------------------------------------------------------- C16 ---
\* C16: find, update and delete send no request for an empty or blank
\* username.
C16_EmptyUsernameSendsNothing ==
    [][\A r \in Requests :
          (r.op \in {"find", "update", "delete"} /\ Issues(r))
              => r.path # <<"">>]_vars

\* --------------------------------------------------------------- C17 ---
\* positions of the records with the greatest creation timestamp
Newest(data) ==
    {i \in 1..Len(data) :
        \A j \in 1..Len(data) : data[j].created_at <= data[i].created_at}

\* C17: among the records of a non-empty response first selects the one
\* with the greatest creation timestamp, and of several with that
\* timestamp the one that comes first in the response.
C17_FirstSelectsLatest ==
    fOut # <<>> => fOut[1] = fData[Min(Newest(fData))]

\* the selection was made among two different records that share the
\* greatest timestamp
C17_SelectedOnTie ==
    /\ fOut # <<>>
    /\ Len(fData) = 2
    /\ fData[1].created_at = fData[2].created_at
    /\ fData[1] # fData[2]

\* --------------------------------------------------------------- C18 ---
\* C18: a first whose remote call succeeds with an empty list resolves to
\* null.
C18_FirstEmptyIsNull ==
    (last.op = "first" /\ last.kind = "ok" /\ last.data = <<>>)
        => (last.outcome = "resolved" /\ last.value = <<>>)

\* --------------------------------------------------------------- C19 ---
\* the username the claim describes: the stripped stored username, the
\* session suffix when withSession, the routing suffix when smart routing
\* is enabled
Composed(cred, withSession) ==
    stripUsernameSuffixes(cred.username)
        \o (IF withSession THEN <<"session", cred.session_salt>> ELSE <<>>)
        \o (IF cred.smartRoutingEnabled = "true"
            THEN <<"routing", "smart">> ELSE <<>>)

C20_UrlFormat ==
    uOut # <<>>
        => LET protocol == IF uProtocol = Undefined THEN "http" ELSE uProtocol
           IN  uOut[1] = <<protocol, info(uCred).username, uCred.password,
                           ConfigHost,
                           IF protocol = "https" THEN HttpsPort ELSE HttpPort>>

\* url() was called without an argument on a Proxy with both features on
C20_UrlDefaulted ==
    /\ uOut # <<>>
    /\ uProtocol = Undefined
    /\ uCred.stickyEnabled = "true"
    /\ uCred.smartRoutingEnabled = "true"
    /\ uCred.session_salt # Undefined

\* --------------------------------------------------------------- C21 ---
\* C21: all() returns one handle for every cached record, in cache order
\* (none when nothing is cached), sends no request and leaves the cache and
\* its records as they were.
C21_AllReflectsCache ==
    [][last'.op = "all"
          => /\ Len(last'.value) = Len(credentials)
             /\ \A i \in 1..Len(credentials) : last'.value[i] = credentials[i]
             /\ credentials = <<>> => last'.value = <<>>
             /\ pending' = pending
             /\ credentials' = credentials
             /\ heap' = heap]_vars

\* all() was called on a cache of two records and returned two handles
C21_AllOfTwo ==
    /\ last.op = "all"
    /\ Len(last.value) = 2
    /\ last.value[1] # last.value[2]

\* --------------------------------------------------------------- C23 ---
\* the generic description of each operation that raises the remote's message
GenericError(op) ==
    CASE op = "create" -> "Failed to create proxies"
      [] op = "update" -> "Failed to update proxy"
      [] op = "delete" -> "Failed to delete proxy"

\* C23: when create, update or delete gets a response with success false,
\* the call fails with the message of the response, letter for letter, when
\* the response has a (non-empty) one, and with the generic description of
\* the operation only when it has none.
C23_RemoteMessageVerbatim ==
    (last.op \in {"create", "update", "delete"} /\ last.kind = "fail")
        => /\ last.outcome = "rejected"
           /\ last.message \notin {Undefined, ""} => last.error = last.message
           /\ last.error = GenericError(last.op) => last.message \in {Undefined, ""}
           /\ last.message \in {Undefined, ""} => last.error = GenericError(last.op)

\* the update of a toggle was rejected by the remote with a message
C23_ToggleRejectedWithMessage ==
    /\ last.op = "update"
    /\ last.toggle \in StickyToggles \cup SmartToggles
    /\ last.kind = "fail"
    /\ last.message = "m1"
    /\ last.error = "m1"

\* --------------------------------------------------------------- C27 ---
\* C27: the body of the update that enableSmartRouting or
\* disableSmartRouting sends has the key use_smart_routing, with the value
\* the toggle gave the handle's smartRoutingEnabled.
C27_SmartToggleReachesRemote ==
    [][\A r \in Requests :
          (r.toggle \in SmartToggles /\ Issues(r))
              => /\ "use_smart_routing" \in DOMAIN UpdateBody(r)
                 /\ UpdateBody(r).use_smart_routing
                        = heap'[r.h].smartRoutingEnabled]_vars

\* --------------------------------------------------------------- C28 ---
Toggles == StickyToggles \cup SmartToggles

\* the flag a toggle sets and the value it gives it
ToggledFlag(cred, toggle) ==
    CASE toggle = "enableSticky" -> cred.stickyEnabled = "true"
      [] toggle = "disableSticky" ->
             cred.stickyEnabled = "false" /\ cred.session_salt = Undefined
      [] toggle = "enableSmartRouting" -> cred.smartRoutingEnabled = "true"
      [] toggle = "disableSmartRouting" -> cred.smartRoutingEnabled = "false"

C25_NoDuplicateCanonical ==
    \A i, j \in 1..Len(credentials) :
        stripUsernameSuffixes(heap[credentials[i]].username)
            = stripUsernameSuffixes(heap[credentials[j]].username)
                => i = j

PairCalls == 3

\* the step in which the update r of one of enableSticky and
\* enableSmartRouting succeeds and leaves nothing in flight, right after
\* the update of the other one, of the same handle, succeeded: the two
\* calls overlapped and both have settled; no other toggle was called
PairSettles(r) ==
    /\ nCalls = PairCalls
    /\ r.op = "update"
    /\ Settles(r)
    /\ pending' = EmptyBag
    /\ last.op = "update"
    /\ last.h = r.h
    /\ {last.toggle, r.toggle} = {"enableSticky", "enableSmartRouting"}
    /\ last.outcome = "resolved"
    /\ last'.outcome = "resolved"

\* C22 as stated: after overlapping enableSticky and enableSmartRouting of
\* one handle have both succeeded, in whichever order, the handle has both
\* features enabled.
C22_ConcurrentEnablesBothOn ==
    [][\A r \in Requests :
          PairSettles(r)
              => /\ heap'[r.h].stickyEnabled = "true"
                 /\ heap'[r.h].smartRoutingEnabled = "true"]_vars

\* C22, amended: after overlapping enableSticky and enableSmartRouting of
\* one handle have both succeeded, in whichever order, the handle has both
\* features enabled, provided enableSticky was issued first, so that the
\* update of enableSmartRouting carries use_sticky true.
C22_StickyIssuedFirstBothOn ==
    [][\A r \in Requests :
          (/\ PairSettles(r)
           /\ r.toggle = "enableSmartRouting" => r.sticky = "true")
              => /\ heap'[r.h].stickyEnabled = "true"
                 /\ heap'[r.h].smartRoutingEnabled = "true"]_vars

\* enableSticky was issued on the cached handle, enableSmartRouting after it
\* and before its update settled, and the update of enableSticky settled
\* last: both features are on
C22_OverlappedStickyFirst ==
    /\ pending = EmptyBag
    /\ last.toggle = "enableSticky"
    /\ last.outcome = "resolved"
    /\ last.h \in Cached
    /\ Len(genLog) = 1
    /\ genLog[1].username =
           stripUsernameSuffixes(heap[last.h].username) \o <<"session", genLog[1].salt>>
    /\ heap[last.h].smartRoutingEnabled = "true"
    /\ heap[last.h].stickyEnabled = "true"

\* --------------------------------------------------------------- C24 ---
\* the handle is the record update finds in the cache for its username
ReconciledHandle(h) ==
    /\ h \in Handles
    /\ CacheMatches(heap, credentials, stripUsernameSuffixes(heap[h].username)) # {}
    /\ credentials[Min(CacheMatches(heap, credentials,
                                    stripUsernameSuffixes(heap[h].username)))] = h

\* C24: overlapping toggles are not put in order: when the update of a
\* sticky toggle succeeds, the cached record takes the value of that
\* toggle, whatever a toggle issued after it has set or synced meanwhile.
C24_EarlierOverwritesLater ==
    (/\ last.toggle \in StickyToggles
     /\ last.outcome = "resolved"
     /\ ReconciledHandle(last.h))
        => heap[last.h].stickyEnabled
               = (IF last.toggle = "enableSticky" THEN "true" ELSE "false")

\* enableSticky and then disableSticky were issued on the cached handle
\* (the token is gone), the update of enableSticky settled last, and the
\* cached flag is on: the value of the toggle issued first
C24_EarlierSettledLast ==
    /\ pending = EmptyBag
    /\ last.toggle = "enableSticky"
    /\ last.outcome = "resolved"
    /\ ReconciledHandle(last.h)
    /\ heap[last.h].session_salt = Undefined
    /\ heap[last.h].stickyEnabled = "true"

\* --------------------------------------------------------------- C26 ---
\* the flags the remote holds for a record once it stored the body of the
\* update r: use_sticky as sent; use_smart_routing as sent when the body has
\* that key, and never set when no body had it
RemoteFlags(r) ==
    [use_sticky |-> UpdateBody(r).use_sticky,
     use_smart_routing |->
         IF "use_smart_routing" \in DOMAIN UpdateBody(r)
         THEN UpdateBody(r).use_smart_routing ELSE Undefined]

\* C26: when every call is awaited and the update of a toggle of a cached
\* handle succeeds, echoing the flag it stored, then the handle, the cached
\* record and the remote record agree on whether sticky is enabled and on
\* whether smart routing is enabled.
C26_LocalCachedRemoteCoherent ==
    [][\A r \in Requests :
          (/\ r.toggle \in Toggles
           /\ Settles(r)
           /\ last'.outcome = "resolved"
           /\ last'.echo = r.sticky
           /\ r.h \in Cached)
              => \A i \in 1..Len(credentials') :
                     credentials'[i] = r.h
                         => LET handle == heap'[r.h]
                                cached == heap'[credentials'[i]]
                                remote == RemoteFlags(r)
                            IN  /\ cached.stickyEnabled = handle.stickyEnabled
                                /\ cached.smartRoutingEnabled = handle.smartRoutingEnabled
                                /\ Truthy(remote.use_sticky) <=> Truthy(handle.stickyEnabled)
                                /\ Truthy(remote.use_smart_routing)
                                       <=> Truthy(handle.smartRoutingEnabled)]_vars

\* --------------------------------------------------------------- C29 ---
\* C29: first, find, create and update called on the registry, overlapping
\* in any way, change neither the cache nor a record in the step that
\* sends the request, in the step that refuses the call, and in the step in
\* which the call fails: on success false, on a rejected transport call, on
\* an empty list for first.
C29_CacheAfterConfirmation ==
    [][/\ \A r \in Requests :
            r.op \in {"first", "find", "create", "update"}
                => /\ Issues(r) => (credentials' = credentials /\ heap' = heap)
                   /\ (Settles(r) /\ (last'.kind # "ok" \/ last'.outcome = "rejected"))
                          => (credentials' = credentials /\ heap' = heap)
       /\ (last'.kind = "none" /\ last'.outcome = "rejected")
            => (credentials' = credentials /\ heap' = heap)]_vars

\* an update failed on success false while a find was in flight and the
\* cache held a record
C29_UpdateFailedDuringFind ==
    /\ last.op = "update"
    /\ last.kind = "fail"
    /\ last.outcome = "rejected"
    /\ InFlight("find") # {}
    /\ credentials # <<>>

\* --------------------------------------------------------------- C31 ---
\* C31: when a first resolves to a handle, the cache holds one record and
\* no other: a new one, built from the record first selected, and the one
\* the returned handle is bound to; the records cached before are out of
\* the cache and unchanged.
C31_FirstReplacesCache ==
    [][\A r \in Requests :
          (r.op = "first" /\ Settles(r) /\ last'.outcome = "resolved")
              => /\ Len(last'.value) = 1
                 /\ credentials' = last'.value
                 /\ last'.value[1] \notin Handles
                 /\ heap'[last'.value[1]].username = last'.data[1].username
                 /\ heap'[last'.value[1]].password = last'.data[1].password
                 /\ \A h \in Handles : heap'[h] = heap[h]]_vars

\* a first resolved while the cache held the record of an earlier first
\* (two calls made two records, the older one with the flags first gives):
\* the cache holds the new record alone
C31_FirstAfterFirst ==
    /\ last.op = "first"
    /\ last.outcome = "resolved"
    /\ nCalls = 2
    /\ Len(heap) = 2
    /\ heap[1].smartRoutingEnabled = Undefined
    /\ credentials = <<2>>

\* --------------------------------------------------------------- C32 ---
RegistryOps == {"first", "find", "create", "update", "delete"}

\* a call sends one request in the step in which it is made and none later:
\* the step that sends r adds r and nothing else to the requests in flight,
\* the step that ends the call takes r out and adds nothing, and a step in
\* which a call is made adds one request at most
OneRequestPerCall ==
    /\ \A r \in Requests :
           r.op \in RegistryOps
               => /\ Issues(r) => (pending' = pending (+) SetToBag({r})
                                      /\ nCalls' = nCalls + 1)
                  /\ Settles(r) => (pending' = pending (-) SetToBag({r})
                                       /\ nCalls' = nCalls)
    /\ BagCardinality(pending') <= BagCardinality(pending) + 1
    /\ BagCardinality(pending') > BagCardinality(pending) => nCalls' = nCalls + 1

\* the call that settled passes the failure of its request on: a rejected
\* transport call as it is, success false as an error of the operation
FailurePropagated(l) ==
    /\ l.outcome = "rejected"
    /\ l.kind \in {"e404", "error"} => l.error = TransportError([kind |-> l.kind])
    /\ l.kind = "fail"
           => l.error = (IF l.op = "first" THEN "Failed to load credentials"
                         ELSE IF l.op = "find" THEN ""
                         ELSE IF l.message \in {Undefined, ""} THEN GenericError(l.op)
                         ELSE l.message)

\* C32 as stated: every call sends one request at most and none after a
\* failure, and passes every failure of its request on to the caller, but
\* for the 404 of find.
C32_NoRetryFailurePropagated ==
    [][/\ OneRequestPerCall
       /\ \A r \in Requests :
              (r.op \in RegistryOps /\ Settles(r) /\ last'.kind # "ok"
               /\ ~(r.op = "find" /\ last'.kind = "e404"))
                  => FailurePropagated(last')]_vars

\* C32, amended: every call sends one request at most and none after a
\* failure, and passes every failure of its request on to the caller, but
\* for find, which turns a 404 and success false into an absent result.
C32_NoRetryFindAbsent ==
    [][/\ OneRequestPerCall
       /\ \A r \in Requests :
              (r.op \in RegistryOps /\ Settles(r) /\ last'.kind # "ok")
                  => IF r.op = "find" /\ last'.kind \in {"e404", "fail"}
                     THEN last'.outcome = "resolved" /\ last'.value = <<>>
                     ELSE FailurePropagated(last')]_vars

\* a first failed on a rejected transport call while another request was in
\* flight, and the failure left that request alone in flight
C32_FirstFailedOnce ==
    /\ last.op = "first"
    /\ last.kind = "error"
    /\ last.outcome = "rejected"
    /\ BagCardinality(pending) = 1
    /\ nCalls = 2

\* --------------------------------------------------------------- C33 ---
\* the step leaves the cache, the number of records, every username and
\* password, and every record whose canonical username is not that of r
\* as they were
UpdateFrame(r) ==
    /\ credentials' = credentials
    /\ Len(heap') = Len(heap)
    /\ \A h \in Handles :
           /\ heap'[h].username = heap[h].username
           /\ heap'[h].password = heap[h].password
           /\ heap'[h].smartRoutingEnabled = heap[h].smartRoutingEnabled
           /\ heap'[h].session_salt = heap[h].session_salt
           /\ stripUsernameSuffixes(heap[h].username) # r.path => heap'[h] = heap[h]

\* C33: when an update resolves, no record was added, removed or moved, no
\* username or password changed, no record of another canonical username
\* changed, and every cached record of the canonical username it addressed
\* has the sticky flag the update carried.
C33_UpdateReconcilesEveryMatch ==
    [][\A r \in Requests :
          (r.op = "update" /\ Settles(r) /\ last'.outcome = "resolved")
              => /\ UpdateFrame(r)
                 /\ r.sticky # Undefined
                        => \A i \in CacheMatches(heap', credentials', r.path) :
                               heap'[credentials'[i]].stickyEnabled = r.sticky]_vars

\* --------------------------------------------------------------- C34 ---
\* C34: reading info and calling url(), once or again, changes nothing of
\* the Proxy's credential, of the cache or of the requests in flight, and
\* gives every time what it gave the first time.
C34_ViewsArePure ==
    [][(uOut' # uOut \/ uInfo' # uInfo)
          => /\ uCred' = uCred
             /\ credentials' = credentials
             /\ heap' = heap
             /\ pending' = pending
             /\ \A i \in 1..Len(uOut') : uOut'[i] = uOut'[1]
             /\ \A i \in 1..Len(uInfo') : uInfo'[i] = uInfo'[1]]_vars

\* info was read twice and url() called twice on a Proxy with a sticky
\* session whose stored username came decorated from the remote
C34_ReadTwice ==
    /\ Len(uOut) = 2
    /\ Len(uInfo) = 2
    /\ uCred.stickyEnabled = "true"
    /\ uCred.session_salt # Undefined
    /\ uCred.username # stripUsernameSuffixes(uCred.username)

\* --------------------------------------------------------------- C36 ---
\* C36: a Proxy whose stickyEnabled is true and that holds no token shows,
\* in info and in url(), the stripped stored username, followed by
\* -routing-smart when smart routing is enabled and by nothing else.
C36_StickyWithoutToken ==
    (uCred.stickyEnabled = "true" /\ uCred.session_salt = Undefined)
        => LET composed ==
                   stripUsernameSuffixes(uCred.username)
                       \o (IF uCred.smartRoutingEnabled = "true"
                           THEN <<"routing", "smart">> ELSE <<>>)
           IN  /\ \A i \in 1..Len(uInfo) : uInfo[i].username = composed
               /\ \A i \in 1..Len(uOut) : uOut[i][2] = composed

\* info was read and url() called on a Proxy with stickyEnabled true, no
\* token and smart routing on
C36_NoTokenRouted ==
    /\ uCred.stickyEnabled = "true"
    /\ uCred.session_salt = Undefined
    /\ uCred.smartRoutingEnabled = "true"
    /\ uInfo # <<>>
    /\ uOut # <<>>

\* --------------------------------------------------------------- C35 ---
\* C35: the DELETE a handle's delete() sends addresses the suffix-free
\* username of the handle, the same one its composed username strips to,
\* whatever toggles came before; when the call resolves, neither the
\* handle's record nor any record of that username is in the cache.
C35_HandleDeleteAddressesCanonical ==
    [][\A r \in Requests :
          (r.op = "delete" /\ r.h # 0)
              => /\ Issues(r)
                     => /\ r.path = stripUsernameSuffixes(heap[r.h].username)
                        /\ r.path = stripUsernameSuffixes(
                                        buildCredential(heap[r.h]).username)
                        /\ SuffixFree(r.path)
                 /\ (Settles(r) /\ last'.outcome = "resolved")
                     => /\ r.h \notin Cached'
                        /\ CacheMatches(heap', credentials', r.path) = {}]_vars

\* a handle loaded with a decorated username had its session enabled and
\* was then deleted through its own delete()
C35_DeletedAfterToggle ==
    /\ last.op = "delete"
    /\ last.h # 0
    /\ last.outcome = "resolved"
    /\ nCalls = 3
    /\ heap[last.h].stickyEnabled = "true"
    /\ heap[last.h].session_salt # Undefined
    /\ heap[last.h].username # stripUsernameSuffixes(heap[last.h].username)
    /\ \E i \in 1..Len(genLog) : genLog[i].h = last.h

\* --------------------------------------------------------------- C37 ---
\* C37: no step of the registry or of a handle changes the password of a
\* credential that exists, cached or not, nor the password its handle shows.
C37_PasswordImmutable ==
    [][\A h \in Handles :
          /\ heap'[h].password = heap[h].password
          /\ info(heap'[h]).password = heap[h].password]_vars

\* a toggle of a cached handle went through update's reconciliation and the
\* handle still has the password the remote issued with its username
C37_ToggledKeepsPassword ==
    /\ last.op = "update"
    /\ last.toggle \in Toggles
    /\ last.outcome = "resolved"
    /\ last.h \in Cached
    /\ heap[last.h].password = PasswordOf(heap[last.h].username)

\* --------------------------------------------------------------- C38 ---
\* the canonical username of a handle and what the handle shows
CanonicalOf(h) == stripUsernameSuffixes(heap[h].username)

SameView(g, h) ==
    /\ heap[g].stickyEnabled = heap[h].stickyEnabled
    /\ heap[g].smartRoutingEnabled = heap[h].smartRoutingEnabled
    /\ buildCredential(heap[g]).username = buildCredential(heap[h]).username

\* all() is called right after a toggle of handle h resolved
AllAfterToggleOf(h) ==
    /\ last.op = "update"
    /\ last.toggle \in Toggles
    /\ last.outcome = "resolved"
    /\ last.h = h
    /\ last'.op = "all"

\* the handles all() returned for the canonical username of h
ReturnedFor(h) ==
    {i \in 1..Len(last'.value) : CanonicalOf(last'.value[i]) = CanonicalOf(h)}

\* no two cached records have the same canonical username
OnePerCanonicalName ==
    \A i \in 1..Len(credentials) :
        Cardinality(CacheMatches(heap, credentials,
                                 CanonicalOf(credentials[i]))) = 1

ComposedForms == {"bare", "session", "routing", "session-routing"}

\* C39: for a base that carries no suffix of its own, any token and any
\* combination of the two features, stripping the username the handle
\* composes gives the base back.
C39_StripInvertsCompose ==
    (SuffixFree(cBase) /\ cForm \in ComposedForms /\ Len(cOut) >= 1)
        => cOut[1] = cBase

====
